---- MODULE Spec2Model ----
(***************************************************************************)
(* A model of cwlbraa/verifysfv: the sfv library (manifest parser,         *)
(* Checksum.Verify, SFV.Verify) and the parallel command-line pipeline.    *)
(*                                                                         *)
(* Strings are sequences of one-character strings so that TrimSpace,       *)
(* SplitN, HasPrefix and ParseUint are computed character by character.    *)
(* A uint32 is a pair <<hi, lo>> of 16-bit limbs (value hi * 2^16 + lo):   *)
(* the model checker's integers are narrower than 32 unsigned bits.        *)
(***************************************************************************)
EXTENDS Integers, Sequences, FiniteSets, TLC

\* ------------------------------------------------------------------ bounds

\* Longest manifest (in lines) the command-line specification reads.
MaxLines == 2
\* Longest manifest (in lines) the library specification reads.
MaxLibLines == 2
\* Largest worker count given with -j.
MaxWorkers == 2

\* ------------------------------------------------------------- strings

\* One 16-bit limb of a uint32.
Limb == 2^16

Zero32 == <<0, 0>>

\* unicode.IsSpace, restricted to the white space the sample lines use.
IsSpace(ch) == ch \in {" ", "\t", "\r"}

RECURSIVE TrimLeft(_)
TrimLeft(s) ==
    IF s # <<>> /\ IsSpace(Head(s)) THEN TrimLeft(Tail(s)) ELSE s

RECURSIVE TrimRight(_)
TrimRight(s) ==
    IF s # <<>> /\ IsSpace(s[Len(s)])
    THEN TrimRight(SubSeq(s, 1, Len(s) - 1))
    ELSE s

\* TrimSpace with the trailing white space left in place.
TrimSpaceLeftOnly(s) == TrimLeft(s)

\* strings.TrimSpace
TrimSpace(s) == TrimRight(TrimLeft(s))

\* strings.HasPrefix(s, ";")
HasPrefix(s, ch) == s # <<>> /\ Head(s) = ch

\* strings.Index(s, ch): the first position of ch in s, 0 when there is none.
RECURSIVE IndexFrom(_, _, _)
IndexFrom(s, ch, i) ==
    IF i > Len(s) THEN 0
    ELSE IF s[i] = ch THEN i
    ELSE IndexFrom(s, ch, i + 1)

\* strings.SplitN(s, " ", 2): at most two parts, cut at the first space.
SplitN2(s) ==
    LET i == IndexFrom(s, " ", 1) IN
    IF i = 0 THEN <<s>>
    ELSE <<SubSeq(s, 1, i - 1), SubSeq(s, i + 1, Len(s))>>

HexDigits ==
    [c \in {"0", "1", "2", "3", "4", "5", "6", "7", "8", "9",
            "a", "b", "c", "d", "e", "f", "A", "B", "C", "D", "E", "F"} |->
       CASE c = "0" -> 0 [] c = "1" -> 1 [] c = "2" -> 2 [] c = "3" -> 3
         [] c = "4" -> 4 [] c = "5" -> 5 [] c = "6" -> 6 [] c = "7" -> 7
         [] c = "8" -> 8 [] c = "9" -> 9
         [] c \in {"a", "A"} -> 10 [] c \in {"b", "B"} -> 11
         [] c \in {"c", "C"} -> 12 [] c \in {"d", "D"} -> 13
         [] c \in {"e", "E"} -> 14 [] c \in {"f", "F"} -> 15]

\* strconv.ParseUint(s, 16, 32), digit by digit: a syntax error at the first
\* character that is no hex digit, a range error as soon as the value no
\* longer fits 32 bits.
RECURSIVE ParseHexFrom(_, _, _)
ParseHexFrom(s, i, n) ==
    IF i > Len(s) THEN [err |-> "nil", val |-> n]
    ELSE IF s[i] \notin DOMAIN HexDigits
         THEN [err |-> "strconv: invalid syntax", val |-> Zero32]
    ELSE LET lo == n[2] * 16 + HexDigits[s[i]]
             hi == n[1] * 16 + (lo \div Limb)
         IN  IF hi >= Limb
             THEN [err |-> "strconv: value out of range", val |-> Zero32]
             ELSE ParseHexFrom(s, i + 1, <<hi, lo % Limb>>)

ParseUint(s) ==
    IF s = <<>> THEN [err |-> "strconv: invalid syntax", val |-> Zero32]
    ELSE ParseHexFrom(s, 1, Zero32)

\* path.Join(dir, filename): the elements joined with a slash and cleaned.
\* Clean is modelled for what the sample names need: a doubled slash
\* collapses to one.
RECURSIVE Clean(_)
Clean(p) ==
    IF Len(p) < 2 THEN p
    ELSE IF p[1] = "/" /\ p[2] = "/" THEN Clean(Tail(p))
    ELSE <<p[1]>> \o Clean(Tail(p))

PathJoin(dir, filename) ==
    IF filename = <<>> THEN Clean(dir)
    ELSE IF dir = <<>> THEN Clean(filename)
    ELSE Clean(dir \o <<"/">> \o filename)

\* ------------------------------------------------------------- parser

NoChecksum == [Filename |-> <<>>, Path |-> <<>>, CRC32 |-> Zero32]

\* parseChecksum(dir, line)
parseChecksum(dir, line) ==
    LET parts == SplitN2(line) IN
    IF Len(parts) # 2
    THEN [err |-> "could not parse checksum", checksum |-> NoChecksum]
    ELSE LET filename == TrimSpace(parts[1])
             crc32    == ParseUint(TrimSpace(parts[2]))
         IN  IF crc32.err # "nil"
             THEN [err |-> crc32.err, checksum |-> NoChecksum]
             ELSE [err |-> "nil",
                   checksum |-> [Filename |-> filename,
                                 Path     |-> PathJoin(dir, filename),
                                 CRC32    |-> crc32.val]]

\* parseLoop passing over a line that fails to parse instead of failing.
RECURSIVE parseLoopSkipBad(_, _, _, _)
parseLoopSkipBad(dir, r, i, checksums) ==
    IF i > Len(r.lines)
    THEN IF r.err # "nil"
         THEN [err |-> r.err, checksums |-> <<>>]
         ELSE [err |-> "nil", checksums |-> checksums]
    ELSE LET line == TrimSpace(r.lines[i]) IN
         IF Len(line) = 0 \/ HasPrefix(line, ";")
         THEN parseLoopSkipBad(dir, r, i + 1, checksums)
         ELSE LET c == parseChecksum(dir, line) IN
              IF c.err # "nil"
              THEN parseLoopSkipBad(dir, r, i + 1, checksums)
              ELSE parseLoopSkipBad(dir, r, i + 1, Append(checksums, c.checksum))

\* The loop of parseChecksums over the scanner's lines, from line i on, with
\* the checksums appended so far.
RECURSIVE parseLoop(_, _, _, _)
parseLoop(dir, r, i, checksums) ==
    IF i > Len(r.lines)
    THEN IF r.err # "nil"
         THEN [err |-> r.err, checksums |-> <<>>]
         ELSE [err |-> "nil", checksums |-> checksums]
    ELSE LET line == TrimSpace(r.lines[i]) IN
         IF Len(line) = 0 \/ HasPrefix(line, ";")
         THEN parseLoop(dir, r, i + 1, checksums)
         ELSE LET c == parseChecksum(dir, line) IN
              IF c.err # "nil"
              THEN [err |-> c.err, checksums |-> <<>>]
              ELSE parseLoop(dir, r, i + 1, Append(checksums, c.checksum))

\* parseChecksums(dir, r): r is the reader, its lines as the scanner yields
\* them and the error scanner.Err() reports after the last one.
parseChecksums(dir, r) == parseLoop(dir, r, 1, <<>>)

\* Read(filepath), given what os.Open finds at filepath: an open error, or
\* a reader over the manifest's lines.
NoSFV == [Checksums |-> <<>>, Path |-> <<>>]

Dir(filepath) ==
    LET RECURSIVE LastSlash(_)
        LastSlash(i) == IF i = 0 \/ filepath[i] = "/" THEN i ELSE LastSlash(i - 1)
        k == LastSlash(Len(filepath))
    IN  IF k = 0 THEN <<".">>
        ELSE IF k = 1 THEN <<"/">>
        ELSE SubSeq(filepath, 1, k - 1)

Read(filepath, file) ==
    IF file.openErr # "nil" THEN [err |-> file.openErr, sfv |-> NoSFV]
    ELSE LET parsed == parseChecksums(Dir(filepath), file.reader) IN
         IF parsed.err # "nil" THEN [err |-> parsed.err, sfv |-> NoSFV]
         ELSE [err |-> "nil",
               sfv |-> [Checksums |-> parsed.checksums, Path |-> filepath]]

\* ------------------------------------------------------------- verifier

\* hash/crc32's generator polynomials, as limbs.
Castagnoli == <<33526, 15224>>   \* 0x82f63b78
IEEE       == <<60856, 33568>>   \* 0xedb88320
Koopman    == <<60209, 55342>>   \* 0xeb31d82e

\* hash/crc32 is a library outside this repository. Its digest is modelled
\* by an accumulator with the properties the pipeline relies on: it starts at
\* zero, depends on the polynomial, and depends on every byte and on their
\* order.
crc32Update(tab, crc, b) ==
    <<(crc[1] * 31 + b + tab[1]) % Limb, (crc[2] * 31 + b + tab[2]) % Limb>>

RECURSIVE crc32Write(_, _, _)
crc32Write(tab, crc, p) ==
    IF p = <<>> THEN crc
    ELSE crc32Write(tab, crc32Update(tab, crc, Head(p)), Tail(p))

Min(a, b) == IF a < b THEN a ELSE b

\* The read loop of Checksum.Verify from offset pos on, with digest h and a
\* buffer of bs bytes. reader.Read on a zero-length buffer returns (0, nil)
\* without reading; at the end of the data the file yields its read error,
\* or io.EOF with n = 0.
RECURSIVE verifyLoop(_, _, _, _, _)
verifyLoop(file, tab, bs, pos, h) ==
    IF bs = 0 THEN [err |-> "nil", sum |-> h]
    ELSE IF pos >= Len(file.data)
         THEN IF file.readErr # "nil"
              THEN [err |-> file.readErr, sum |-> Zero32]
              ELSE [err |-> "nil", sum |-> h]
    ELSE LET n == Min(bs, Len(file.data) - pos) IN
         verifyLoop(file, tab, bs, pos + n,
                    crc32Write(tab, h, SubSeq(file.data, pos + 1, pos + n)))

\* (c *Checksum) Verify(polynomial), given what the file system holds at
\* c.Path and the package's bufSize. A negative bs stands for the huge
\* uint64 the conversion of a negative int gives: make panics.
Verify(c, polynomial, bs, file) ==
    IF file.openErr # "nil"
    THEN [panic |-> FALSE, ok |-> FALSE, result |-> Zero32, err |-> file.openErr]
    ELSE IF bs < 0
    THEN [panic |-> TRUE, ok |-> FALSE, result |-> Zero32, err |-> "nil"]
    ELSE LET r == verifyLoop(file, polynomial, bs, 0, Zero32) IN
         IF r.err # "nil"
         THEN [panic |-> FALSE, ok |-> FALSE, result |-> Zero32, err |-> r.err]
         ELSE [panic |-> FALSE, ok |-> r.sum = c.CRC32, result |-> r.sum,
               err |-> "nil"]

\* The loop of SFV.Verify without the test of ok: a mismatch does not stop it.
RECURSIVE sfvVerifyLoopNoOkTest(_, _, _, _, _, _)
sfvVerifyLoopNoOkTest(s, polynomial, bs, fs, i, calls) ==
    IF i > Len(s.Checksums) THEN [ok |-> TRUE, err |-> "nil", calls |-> calls]
    ELSE LET r  == Verify(s.Checksums[i], polynomial, bs, fs[i])
             cs == Append(calls, [idx |-> i, ok |-> r.ok, err |-> r.err])
         IN  IF r.err # "nil" THEN [ok |-> FALSE, err |-> r.err, calls |-> cs]
             ELSE sfvVerifyLoopNoOkTest(s, polynomial, bs, fs, i + 1, cs)

\* (s *SFV) Verify(polynomial): the loop over s.Checksums from index i on.
\* fs[i] is what the file system holds at the i-th record's path when the
\* loop opens it; calls lists the Checksum.Verify calls made so far.
RECURSIVE sfvVerifyLoop(_, _, _, _, _, _)
sfvVerifyLoop(s, polynomial, bs, fs, i, calls) ==
    IF i > Len(s.Checksums) THEN [ok |-> TRUE, err |-> "nil", calls |-> calls]
    ELSE LET r  == Verify(s.Checksums[i], polynomial, bs, fs[i])
             cs == Append(calls, [idx |-> i, ok |-> r.ok, err |-> r.err])
         IN  IF r.err # "nil" THEN [ok |-> FALSE, err |-> r.err, calls |-> cs]
             ELSE IF ~r.ok THEN [ok |-> FALSE, err |-> "nil", calls |-> cs]
             ELSE sfvVerifyLoop(s, polynomial, bs, fs, i + 1, cs)

sfvVerify(s, polynomial, bs, fs) ==
    IF Len(s.Checksums) = 0
    THEN [ok |-> FALSE, err |-> "no checksums found", calls |-> <<>>]
    ELSE sfvVerifyLoop(s, polynomial, bs, fs, 1, <<>>)

\* ------------------------------------------------------------- inputs

\* The manifest lines the specifications draw from. kind, name and crc say
\* what the file format makes of the line: they are the expected reading,
\* written by hand, against which the parser's result is compared.
LineBlank   == [text |-> <<>>, kind |-> "blank",
                name |-> <<>>, crc |-> Zero32]
LineSpaces  == [text |-> <<" ", "\t">>, kind |-> "blank",
                name |-> <<>>, crc |-> Zero32]
LineComment == [text |-> <<";", "a", " ", "0">>, kind |-> "comment",
                name |-> <<>>, crc |-> Zero32]
LineIndentedComment == [text |-> <<" ", ";", "Z">>, kind |-> "comment",
                name |-> <<>>, crc |-> Zero32]
\* a 0
LineA0      == [text |-> <<"a", " ", "0">>, kind |-> "record",
                name |-> <<"a">>, crc |-> Zero32]
\* b 82F73B79
LineB       == [text |-> <<"b", " ", "8", "2", "F", "7", "3", "B", "7", "9">>,
                kind |-> "record", name |-> <<"b">>, crc |-> <<33527, 15225>>]
\* a ffffFFFF followed by a carriage return
LineAMax    == [text |-> <<"a", " ", "f", "f", "f", "f", "F", "F", "F", "F", "\r">>,
                kind |-> "record", name |-> <<"a">>, crc |-> <<65535, 65535>>]
\* a (one field only)
LineOneField == [text |-> <<"a">>, kind |-> "malformed",
                name |-> <<>>, crc |-> Zero32]
\* a<TAB>0 (no space to split at)
LineTab     == [text |-> <<"a", "\t", "0">>, kind |-> "tabbed",
                name |-> <<>>, crc |-> Zero32]
\* c ZZ
LineNotHex  == [text |-> <<"c", " ", "Z", "Z">>, kind |-> "nothex",
                name |-> <<>>, crc |-> Zero32]
\* a 100000000 (33 bits)
LineTooWide == [text |-> <<"a", " ", "1", "0", "0", "0", "0", "0", "0", "0", "0">>,
                kind |-> "toowide", name |-> <<>>, crc |-> Zero32]
\* a b 1F (the file is named "a b")
LineSpacedName == [text |-> <<"a", " ", "b", " ", "1", "F">>, kind |-> "spaced",
                name |-> <<"a", " ", "b">>, crc |-> <<0, 31>>]
\* /a 1 (the file name is an absolute path)
LineAbsolute == [text |-> <<"/", "a", " ", "1">>, kind |-> "record",
                name |-> <<"/", "a">>, crc |-> <<0, 1>>]

LineSamples ==
    {LineBlank, LineSpaces, LineComment, LineIndentedComment, LineA0, LineB,
     LineAMax, LineOneField, LineTab, LineNotHex, LineTooWide, LineSpacedName,
     LineAbsolute}

\* The lines the command-line specification's manifests are made of.
CliLineSamples == {LineComment, LineB, LineOneField}

SeqsUpTo(S, n) == UNION {[1..k -> S] : k \in 0..n}

TextOf(ls) == [i \in DOMAIN ls |-> ls[i].text]

\* What os.Open finds at the manifest's path: nothing, or a file with the
\* given lines, read without error or with an error after the last line.
NoFile == [openErr |-> "no such file or directory", samples |-> <<>>,
           reader |-> [lines |-> <<>>, err |-> "nil"]]

SfvFiles(samples, n) ==
    {NoFile} \cup
    {[openErr |-> "nil", samples |-> ls,
      reader |-> [lines |-> TextOf(ls), err |-> e]] :
        ls \in SeqsUpTo(samples, n), e \in {"nil", "input/output error"}}

\* The manifest's path: directory d, file m.
SfvPath == <<"d", "/", "m">>

\* What the file system holds at a record's path.
Missing   == [openErr |-> "no such file or directory", readErr |-> "nil",
              data |-> <<>>]
Directory == [openErr |-> "nil", readErr |-> "is a directory", data |-> <<>>]
Empty     == [openErr |-> "nil", readErr |-> "nil", data |-> <<>>]
OneByte   == [openErr |-> "nil", readErr |-> "nil", data |-> <<1>>]
TwoBytes  == [openErr |-> "nil", readErr |-> "nil", data |-> <<1, 2>>]

Files == {Missing, Directory, Empty, OneByte, TwoBytes}

\* The files the command's workers find.
CliFiles == {Missing, Directory, Empty, OneByte}

Polynomials == {Castagnoli, IEEE, Koopman}

\* var bufSize uint64 = 4096
DefaultBufSize == 4096

\* The buffer sizes a caller of the library sets with SetBufSize.
LibBufSizes == {0, 1}

\* ------------------------------------------------------------- state

VARIABLES
    bufSize,     \* the package variable bufSize
    \* a program using the library as the README shows: Read, then SFV.Verify
    libpc,       \* "read", "verify" or "done"
    libFile,     \* what os.Open finds at the manifest's path
    libRead,     \* what Read returned: [err, sfv]
    libEnv,      \* SFV.Verify's polynomial and, for each record it opened,
                 \* what the file system held at the record's path
    libVerify,   \* what SFV.Verify returned: [ok, err, calls]
    \* the command verifysfv
    flags,       \* the command and its command line: [cmd, poly, j, mem, nargs]
    pc,          \* where main is
    polynomial,  \* parsePoly's result
    parsed,      \* verifysfv.Read's result
    checksums,   \* the work channel: [buf, closed]
    errs,        \* the result channel: [buf, closed]
    wg,          \* the WaitGroup's counter
    i,           \* the spawn loop's counter
    n,           \* how many records main has sent
    workers,     \* each worker goroutine: [pc, item, out]
    closer,      \* the goroutine that closes errs: "none", "wait", "done"
    exitCode,    \* main's exitCode
    status,      \* the process's exit status, Running until it ends
    bar,         \* the progress bar's count
    stdout,      \* the lines printed
    consumed     \* every value main has received from errs, in order

libVars == <<libpc, libFile, libRead, libEnv, libVerify>>

cliVars == <<flags, pc, polynomial, parsed, checksums, errs, wg, i, n, workers,
             closer, exitCode, status, bar, stdout, consumed>>

vars == <<bufSize, libVars, cliVars>>

\* ------------------------------------------------------------- library use

NoRead   == [err |-> "none", sfv |-> NoSFV]
NoVerify == [ok |-> FALSE, err |-> "none", calls |-> <<>>]
NoEnv    == [poly |-> Zero32, files |-> <<>>]

LibIdle ==
    /\ libpc = "off" /\ libFile = NoFile /\ libRead = NoRead
    /\ libEnv = NoEnv /\ libVerify = NoVerify

LibInit ==
    /\ bufSize = DefaultBufSize
    /\ libpc = "read"
    /\ libFile \in SfvFiles(LineSamples, MaxLibLines)
    /\ libRead = NoRead
    /\ libEnv = NoEnv
    /\ libVerify = NoVerify

\* SetBufSize(bs), called before any file is verified.
SetBufSize ==
    /\ libpc = "read"
    /\ bufSize = DefaultBufSize
    /\ \E bs \in LibBufSizes : bufSize' = bs
    /\ UNCHANGED <<libVars, cliVars>>

\* sfv, err := Read(path)
LibRead ==
    /\ libpc = "read"
    /\ libRead' = Read(SfvPath, libFile)
    /\ libpc' = IF libRead'.err = "nil" THEN "verify" ELSE "done"
    /\ UNCHANGED <<bufSize, libFile, libEnv, libVerify, cliVars>>

\* ok, err := sfv.Verify(polynomial)
LibVerify ==
    /\ libpc = "verify"
    /\ \E p \in Polynomials :
       \E fs \in [1..Len(libRead.sfv.Checksums) -> Files] :
          /\ libVerify' = sfvVerify(libRead.sfv, p, bufSize, fs)
          /\ libEnv' = [poly |-> p,
                         files |-> [k \in 1..Len(libVerify'.calls) |-> fs[k]]]
    /\ libpc' = "done"
    /\ UNCHANGED <<bufSize, libFile, libRead, cliVars>>

\* ------------------------------------------------------------- command

Running == 0 - 1

\* The names given with -poly.
PolyNames == {"crc32c", "ieee", "koop", "koopman"}

\* The budgets given with -mem, in kB: none, and runtime.NumCPU()*4 on one CPU.
MemValues == {0, 4}

\* parsePoly whose default case falls through to return 0.
parsePolyNoFatal(in) ==
    CASE in = "crc32c" -> [fatal |-> FALSE, poly |-> Castagnoli]
      [] in = "ieee"   -> [fatal |-> FALSE, poly |-> IEEE]
      [] in = "koop"   -> [fatal |-> FALSE, poly |-> Koopman]
      [] OTHER         -> [fatal |-> FALSE, poly |-> Zero32]

\* parsePoly(in): log.Fatalf on a name the switch does not list.
parsePoly(in) ==
    CASE in = "crc32c" -> [fatal |-> FALSE, poly |-> Castagnoli]
      [] in = "ieee"   -> [fatal |-> FALSE, poly |-> IEEE]
      [] in = "koop"   -> [fatal |-> FALSE, poly |-> Koopman]
      [] OTHER         -> [fatal |-> TRUE,  poly |-> Zero32]

\* Go's integer division, which truncates toward zero (b # 0).
GoDiv(a, b) ==
    IF (a >= 0) = (b > 0) THEN (IF a >= 0 THEN a ELSE 0 - a) \div (IF b > 0 THEN b ELSE 0 - b)
    ELSE 0 - ((IF a >= 0 THEN a ELSE 0 - a) \div (IF b > 0 THEN b ELSE 0 - b))

\* The kB of -mem, in bytes.
KB == 2^10

Workers == 1..MaxWorkers

NoItem == [idx |-> 0, c |-> NoChecksum]
NoOut  == [file |-> Missing, ok |-> FALSE, result |-> Zero32, err |-> "none"]
NewChan == [buf |-> <<>>, closed |-> FALSE]
\* count := len(parsed.Checksums)
Count == Len(parsed.sfv.Checksums)

\* Channels made one slot short of count.
CapOneShort == Count - 1

\* make(chan verifysfv.Checksum, count) and make(chan error, count): the
\* capacity of both channels.
Cap == Count

\* The two commands of the repository: verifysfv takes the worker count
\* from -j; cmd/verify starts runtime.NumCPU() workers, and j stands for
\* that count.
CommandLines ==
    {f \in [cmd : {"verifysfv", "verify"}, poly : PolyNames,
            j : (0 - 1)..MaxWorkers, mem : MemValues, nargs : {0, 1}] :
        f.cmd = "verify" => f.j >= 1}

CliIdle ==
    /\ flags = [cmd |-> "verifysfv", poly |-> "crc32c", j |-> 1, mem |-> 4,
                nargs |-> 0]
    /\ pc = "off"
    /\ polynomial = Zero32
    /\ parsed = NoRead
    /\ checksums = NewChan /\ errs = NewChan
    /\ wg = 0 /\ i = 0 /\ n = 0
    /\ workers = [k \in Workers |-> [pc |-> "none", item |-> NoItem, out |-> NoOut]]
    /\ closer = "none"
    /\ exitCode = 0 /\ status = Running
    /\ bar = 0 /\ stdout = <<>> /\ consumed = <<>>

Init ==
    /\ bufSize = DefaultBufSize
    /\ LibIdle
    /\ flags \in CommandLines
    /\ pc = "flags"
    /\ polynomial = Zero32
    /\ parsed = NoRead
    /\ checksums = NewChan /\ errs = NewChan
    /\ wg = 0 /\ i = 0 /\ n = 0
    /\ workers = [k \in Workers |-> [pc |-> "none", item |-> NoItem, out |-> NoOut]]
    /\ closer = "none"
    /\ exitCode = 0 /\ status = Running
    /\ bar = 0 /\ stdout = <<>> /\ consumed = <<>>

\* os.Exit(code), log.Fatal (code 1) or a panic (code 2): the process ends
\* and no goroutine takes another step.
Exit(code) == status' = code /\ pc' = "exited"

\* flag.Parse, the check of the positional argument, parsePoly and
\* SetBufSize(*memory * 1024 / *parallelism).
ParseFlags ==
    /\ pc = "flags" /\ status = Running
    /\ flags.cmd = "verifysfv"
    /\ IF flags.nargs < 1 THEN
          Exit(1) /\ UNCHANGED <<polynomial, bufSize>>
       ELSE IF parsePoly(flags.poly).fatal THEN
          Exit(1) /\ UNCHANGED <<polynomial, bufSize>>
       ELSE IF flags.j = 0 THEN
          \* integer divide by zero
          /\ Exit(2)
          /\ polynomial' = parsePoly(flags.poly).poly
          /\ UNCHANGED bufSize
       ELSE
          /\ polynomial' = parsePoly(flags.poly).poly
          /\ bufSize' = GoDiv(flags.mem * KB, flags.j)
          /\ pc' = "read"
          /\ UNCHANGED status
    /\ UNCHANGED <<libVars, flags, parsed, checksums, errs, wg, i, n, workers,
                   closer, exitCode, bar, stdout, consumed>>

\* cmd/verify: flag.Parse, SetBufSize(*memory * 1024 / runtime.NumCPU()),
\* parsePoly, then the check of the positional argument.
ParseFlagsVerify ==
    /\ pc = "flags" /\ status = Running
    /\ flags.cmd = "verify"
    /\ bufSize' = GoDiv(flags.mem * KB, flags.j)
    /\ IF parsePoly(flags.poly).fatal THEN
          Exit(1) /\ UNCHANGED polynomial
       ELSE IF flags.nargs < 1 THEN
          Exit(1) /\ polynomial' = parsePoly(flags.poly).poly
       ELSE
          /\ polynomial' = parsePoly(flags.poly).poly
          /\ pc' = "read"
          /\ UNCHANGED status
    /\ UNCHANGED <<libVars, flags, parsed, checksums, errs, wg, i, n, workers,
                   closer, exitCode, bar, stdout, consumed>>

\* parsed, err := verifysfv.Read(sfvFilepath); log.Fatal(err) on an error;
\* then the progress bar, the two channels and the WaitGroup.
ReadManifest ==
    /\ pc = "read" /\ status = Running
    /\ \E file \in SfvFiles(CliLineSamples, MaxLines) :
          /\ parsed' = Read(SfvPath, file)
          /\ IF parsed'.err # "nil" THEN Exit(1)
             ELSE pc' = "spawn" /\ UNCHANGED status
    /\ checksums' = NewChan /\ errs' = NewChan /\ wg' = 0 /\ i' = 0
    /\ UNCHANGED <<bufSize, libVars, flags, polynomial, n, workers, closer,
                   exitCode, bar, stdout, consumed>>

\* The spawn loop with the go statement alone, wg.Add(1) left out.
SpawnNoAdd ==
    /\ pc = "spawn" /\ status = Running
    /\ i < flags.j
    /\ workers' = [workers EXCEPT ![i + 1].pc = "range"]
    /\ i' = i + 1
    /\ UNCHANGED <<bufSize, libVars, flags, pc, polynomial, parsed, checksums,
                   errs, wg, n, closer, exitCode, status, bar, stdout, consumed>>

\* One turn of the spawn loop: wg.Add(1) and the go statement.
Spawn ==
    /\ pc = "spawn" /\ status = Running
    /\ i < flags.j
    /\ wg' = wg + 1
    /\ workers' = [workers EXCEPT ![i + 1].pc = "range"]
    /\ i' = i + 1
    /\ UNCHANGED <<bufSize, libVars, flags, pc, polynomial, parsed, checksums,
                   errs, n, closer, exitCode, status, bar, stdout, consumed>>

\* The spawn loop ends; uiprogress.Start().
StartProgress ==
    /\ pc = "spawn" /\ status = Running
    /\ i >= flags.j
    /\ pc' = "enqueue"
    /\ n' = 0
    /\ UNCHANGED <<bufSize, libVars, flags, polynomial, parsed, checksums, errs,
                   wg, i, workers, closer, exitCode, status, bar, stdout, consumed>>

\* checksums <- chk: blocks while the channel's buffer is full.
Enqueue ==
    /\ pc = "enqueue" /\ status = Running
    /\ n < Count
    /\ Len(checksums.buf) < Cap
    /\ checksums' = [checksums EXCEPT
                       !.buf = Append(@, [idx |-> n + 1, c |-> parsed.sfv.Checksums[n + 1]])]
    /\ n' = n + 1
    /\ UNCHANGED <<bufSize, libVars, flags, pc, polynomial, parsed, errs, wg, i,
                   workers, closer, exitCode, status, bar, stdout, consumed>>

\* close(checksums)
CloseChecksums ==
    /\ pc = "enqueue" /\ status = Running
    /\ n >= Count
    /\ checksums' = [checksums EXCEPT !.closed = TRUE]
    /\ pc' = "closer"
    /\ UNCHANGED <<bufSize, libVars, flags, polynomial, parsed, errs, wg, i, n,
                   workers, closer, exitCode, status, bar, stdout, consumed>>

\* go func() { wg.Wait(); close(errs) }(), then exitCode := 0.
GoCloser ==
    /\ pc = "closer" /\ status = Running
    /\ closer' = "wait"
    /\ exitCode' = 0
    /\ pc' = "drain"
    /\ UNCHANGED <<bufSize, libVars, flags, polynomial, parsed, checksums, errs,
                   wg, i, n, workers, status, bar, stdout, consumed>>

\* The closing goroutine without wg.Wait(): it closes errs at once.
CloseErrsNoWait ==
    /\ closer = "wait" /\ status = Running
    /\ errs' = [errs EXCEPT !.closed = TRUE]
    /\ closer' = "done"
    /\ UNCHANGED <<bufSize, libVars, flags, pc, polynomial, parsed, checksums,
                   wg, i, n, workers, exitCode, status, bar, stdout, consumed>>

\* wg.Wait() returns once the counter is zero; close(errs).
CloseErrs ==
    /\ closer = "wait" /\ status = Running
    /\ wg = 0
    /\ errs' = [errs EXCEPT !.closed = TRUE]
    /\ closer' = "done"
    /\ UNCHANGED <<bufSize, libVars, flags, pc, polynomial, parsed, checksums,
                   wg, i, n, workers, exitCode, status, bar, stdout, consumed>>

\* The range over errs with exitCode set from the last value alone.
DrainLastWins ==
    /\ pc = "drain" /\ status = Running
    /\ errs.buf # <<>>
    /\ LET err == Head(errs.buf) IN
          /\ errs' = [errs EXCEPT !.buf = Tail(@)]
          /\ consumed' = Append(consumed, err)
          /\ IF err.kind # "nil"
             THEN exitCode' = 1 /\ stdout' = Append(stdout, err)
             ELSE exitCode' = 0 /\ UNCHANGED stdout
    /\ UNCHANGED <<bufSize, libVars, flags, pc, polynomial, parsed, checksums,
                   wg, i, n, workers, closer, status, bar>>

\* One turn of for err := range errs.
Drain ==
    /\ pc = "drain" /\ status = Running
    /\ errs.buf # <<>>
    /\ LET err == Head(errs.buf) IN
          /\ errs' = [errs EXCEPT !.buf = Tail(@)]
          /\ consumed' = Append(consumed, err)
          /\ IF err.kind # "nil"
             THEN exitCode' = 1 /\ stdout' = Append(stdout, err)
             ELSE UNCHANGED <<exitCode, stdout>>
    /\ UNCHANGED <<bufSize, libVars, flags, pc, polynomial, parsed, checksums,
                   wg, i, n, workers, closer, status, bar>>

\* The range over errs ends: the channel is closed and empty. os.Exit(exitCode).
ExitMain ==
    /\ pc = "drain" /\ status = Running
    /\ errs.buf = <<>> /\ errs.closed
    /\ Exit(exitCode)
    /\ UNCHANGED <<bufSize, libVars, flags, polynomial, parsed, checksums, errs,
                   wg, i, n, workers, closer, exitCode, bar, stdout, consumed>>

\* A worker leaving its loop without wg.Done().
WorkerDoneNoSignal(k) ==
    /\ workers[k].pc = "range" /\ status = Running
    /\ checksums.buf = <<>> /\ checksums.closed
    /\ workers' = [workers EXCEPT ![k].pc = "done"]
    /\ UNCHANGED <<bufSize, libVars, flags, pc, polynomial, parsed, checksums,
                   errs, wg, i, n, closer, exitCode, status, bar, stdout, consumed>>

\* The range ends on the closed, empty channel; wg.Done().
WorkerDone(k) ==
    /\ workers[k].pc = "range" /\ status = Running
    /\ checksums.buf = <<>> /\ checksums.closed
    /\ workers' = [workers EXCEPT ![k].pc = "done"]
    /\ wg' = wg - 1
    /\ UNCHANGED <<bufSize, libVars, flags, pc, polynomial, parsed, checksums,
                   errs, i, n, closer, exitCode, status, bar, stdout, consumed>>

\* A worker with bar.Incr() at the end of the loop body, where the continue
\* of the mismatch branch skips it.
VerifyNextIncrAtEnd(k) ==
    /\ workers[k].pc = "range" /\ status = Running
    /\ checksums.buf # <<>>
    /\ checksums' = [checksums EXCEPT !.buf = Tail(@)]
    /\ \E file \in CliFiles :
       LET item == Head(checksums.buf)
           r    == Verify(item.c, polynomial, bufSize, file)
       IN  IF r.panic
           THEN /\ Exit(2)
                /\ UNCHANGED <<workers, bar>>
           ELSE /\ workers' = [workers EXCEPT
                       ![k].pc = "send",
                       ![k].item = item,
                       ![k].out = [file |-> file, ok |-> r.ok,
                                   result |-> r.result, err |-> r.err]]
                /\ bar' = IF ~r.ok /\ r.err = "nil" THEN bar ELSE bar + 1
                /\ UNCHANGED <<pc, status>>
    /\ UNCHANGED <<bufSize, libVars, flags, polynomial, parsed, errs, wg, i, n,
                   closer, exitCode, stdout, consumed>>

\* A worker that verifies the record at the head of checksums and leaves it
\* in the channel.
VerifyNextNoDequeue(k) ==
    /\ workers[k].pc = "range" /\ status = Running
    /\ checksums.buf # <<>>
    /\ \E file \in CliFiles :
       LET item == Head(checksums.buf)
           r    == Verify(item.c, polynomial, bufSize, file)
       IN  IF r.panic
           THEN /\ Exit(2)
                /\ UNCHANGED <<workers, bar>>
           ELSE /\ workers' = [workers EXCEPT
                       ![k].pc = "send",
                       ![k].item = item,
                       ![k].out = [file |-> file, ok |-> r.ok,
                                   result |-> r.result, err |-> r.err]]
                /\ bar' = bar + 1
                /\ UNCHANGED <<pc, status>>
    /\ UNCHANGED <<bufSize, libVars, flags, polynomial, parsed, checksums, errs,
                   wg, i, n, closer, exitCode, stdout, consumed>>

\* A worker's for checksum := range checksums receives a record, then
\* success, result, err := checksum.Verify(polynomial) and bar.Incr().
\* file is what the file system holds at the record's path at that moment.
VerifyNext(k) ==
    /\ workers[k].pc = "range" /\ status = Running
    /\ checksums.buf # <<>>
    /\ checksums' = [checksums EXCEPT !.buf = Tail(@)]
    /\ \E file \in CliFiles :
       LET item == Head(checksums.buf)
           r    == Verify(item.c, polynomial, bufSize, file)
       IN  IF r.panic
           THEN /\ Exit(2)
                /\ UNCHANGED <<workers, bar>>
           ELSE /\ workers' = [workers EXCEPT
                       ![k].pc = "send",
                       ![k].item = item,
                       ![k].out = [file |-> file, ok |-> r.ok,
                                   result |-> r.result, err |-> r.err]]
                /\ bar' = bar + 1
                /\ UNCHANGED <<pc, status>>
    /\ UNCHANGED <<bufSize, libVars, flags, polynomial, parsed, errs, wg, i, n,
                   closer, exitCode, stdout, consumed>>

\* The corruption error with its two checksums in the other order.
MessageSwapped(item, out) ==
    IF ~out.ok /\ out.err = "nil"
    THEN [idx |-> item.idx, out |-> out, kind |-> "corruption",
          text |-> "corruption", expected |-> out.result,
          computed |-> item.c.CRC32, filename |-> item.c.Filename]
    ELSE [idx |-> item.idx, out |-> out,
          kind |-> IF out.err = "nil" THEN "nil" ELSE "io",
          text |-> out.err, expected |-> Zero32, computed |-> Zero32,
          filename |-> <<>>]

\* The value a worker sends for its outcome: a corruption error for a
\* mismatch, otherwise Verify's err (nil for a match). idx and out are not
\* in the program: they record which record the value is for and what
\* Verify found and returned.
Message(item, out) ==
    IF ~out.ok /\ out.err = "nil"
    THEN [idx |-> item.idx, out |-> out, kind |-> "corruption",
          text |-> "corruption", expected |-> item.c.CRC32,
          computed |-> out.result, filename |-> item.c.Filename]
    ELSE [idx |-> item.idx, out |-> out,
          kind |-> IF out.err = "nil" THEN "nil" ELSE "io",
          text |-> out.err, expected |-> Zero32, computed |-> Zero32,
          filename |-> <<>>]

\* A send that puts the value at the front of the channel's buffer.
SendAtFront(k) ==
    /\ workers[k].pc = "send" /\ status = Running
    /\ IF errs.closed
       THEN Exit(2) /\ UNCHANGED <<errs, workers>>
       ELSE /\ Len(errs.buf) < Cap
            /\ errs' = [errs EXCEPT
                          !.buf = <<Message(workers[k].item, workers[k].out)>> \o @]
            /\ workers' = [workers EXCEPT ![k].pc = "range", ![k].item = NoItem,
                                          ![k].out = NoOut]
            /\ UNCHANGED <<pc, status>>
    /\ UNCHANGED <<bufSize, libVars, flags, polynomial, parsed, checksums, wg,
                   i, n, closer, exitCode, bar, stdout, consumed>>

\* errs <- ...: blocks while the channel's buffer is full; a send on a
\* closed channel panics.
Send(k) ==
    /\ workers[k].pc = "send" /\ status = Running
    /\ IF errs.closed
       THEN Exit(2) /\ UNCHANGED <<errs, workers>>
       ELSE /\ Len(errs.buf) < Cap
            /\ errs' = [errs EXCEPT
                          !.buf = Append(@, Message(workers[k].item, workers[k].out))]
            /\ workers' = [workers EXCEPT ![k].pc = "range", ![k].item = NoItem,
                                          ![k].out = NoOut]
            /\ UNCHANGED <<pc, status>>
    /\ UNCHANGED <<bufSize, libVars, flags, polynomial, parsed, checksums, wg,
                   i, n, closer, exitCode, bar, stdout, consumed>>

Main ==
    \/ ParseFlags
    \/ ParseFlagsVerify
    \/ ReadManifest
    \/ Spawn
    \/ StartProgress
    \/ Enqueue
    \/ CloseChecksums
    \/ GoCloser
    \/ Drain
    \/ ExitMain

Worker(k) ==
    \/ VerifyNext(k)
    \/ Send(k)
    \/ WorkerDone(k)

Next ==
    \/ Main
    \/ \E k \in Workers : Worker(k)
    \/ CloseErrs

Spec == Init /\ [][Next]_vars

\* The scheduler runs some goroutine whenever one can take a step: the
\* process does not stop while a goroutine is runnable.
Fairness == WF_vars(Next)

LiveSpec == Init /\ [][Next]_vars /\ Fairness

LibInitAll == LibInit /\ CliIdle

LibNext ==
    \/ SetBufSize
    \/ LibRead
    \/ LibVerify

LibSpec == LibInitAll /\ [][LibNext]_vars

\* ------------------------------------------------------------- properties

\* The pipeline ran: the manifest loaded and main went on to the spawn loop.
Loaded == parsed.err = "nil"

Ended == pc = "exited"

IdxOf(q) == {q[k].idx : k \in DOMAIN q}

Distinct(q) == \A a, b \in DOMAIN q : q[a].idx = q[b].idx => a = b

OutcomeOK(m) == m.out.err = "nil" /\ m.out.ok

\* C1: with 1 <= W <= N workers, the values main receives from errs are for
\* distinct records at every moment, and when the run has ended main has
\* received exactly N of them, one for every record of the manifest.
C1_OutcomesBijective ==
    (Loaded /\ flags.j >= 1 /\ flags.j <= Count) =>
        /\ Distinct(consumed)
        /\ IdxOf(consumed) \subseteq 1..Count
        /\ Ended => (Len(consumed) = Count /\ IdxOf(consumed) = 1..Count)

\* A run of two workers over two records has ended, and the second record's
\* outcome arrived first.
C1_Witness ==
    /\ Ended /\ Loaded /\ flags.j = 2 /\ Count = 2
    /\ Len(consumed) = 2 /\ consumed[1].idx = 2 /\ consumed[2].idx = 1

\* C2: with W >= 1 workers, a run that has ended after the pipeline has exit
\* status 0 exactly when each of the N outcomes is a match without error,
\* and status 1 otherwise.
C2_ExitStatus ==
    (Ended /\ Loaded /\ flags.j >= 1) =>
        LET allOK == /\ IdxOf(consumed) = 1..Count
                     /\ \A k \in DOMAIN consumed : OutcomeOK(consumed[k])
        IN  /\ status = 0 <=> allOK
            /\ ~allOK => status = 1

\* A run has ended with status 1, the first outcome received being a failure
\* and the last a match.
C2_Witness ==
    /\ Ended /\ Loaded /\ flags.j >= 1 /\ Count = 2 /\ status = 1
    /\ Len(consumed) = 2
    /\ ~OutcomeOK(consumed[1]) /\ OutcomeOK(consumed[2])

\* C4 (as claimed): a run over a manifest that loads with zero records never
\* ends with status 0.
C4_EmptyManifestFatal ==
    (Ended /\ Loaded /\ Count = 0) => status # 0

\* A file that does not open, or opens and fails to read.
Unreadable(file) == file.openErr # "nil" \/ file.readErr # "nil"

UnderlyingErr(file) == IF file.openErr # "nil" THEN file.openErr ELSE file.readErr

ErrorOutcome(out) ==
    /\ ~out.ok /\ out.result = Zero32
    /\ out.err = UnderlyingErr(out.file)

\* C9 (as claimed): for every outcome a worker holds or has sent, if the
\* record's file could not be opened or read then Verify returned an error
\* with matched = false and computed = 0, and the value sent is that error,
\* not a corruption error.
C9_IOErrorNotCorruption ==
    /\ \A k \in Workers :
          (workers[k].pc = "send" /\ Unreadable(workers[k].out.file)) =>
              ErrorOutcome(workers[k].out)
    /\ \A q \in {errs.buf, consumed} : \A k \in DOMAIN q :
          Unreadable(q[k].out.file) =>
              /\ ErrorOutcome(q[k].out)
              /\ q[k].kind = "io"
              /\ q[k].text = UnderlyingErr(q[k].out.file)

\* The names the switch of parsePoly lists.
Recognized == {"crc32c", "ieee", "koop"}

\* C10: with a polynomial name the switch of parsePoly does not list, main
\* never gets past the flags: the manifest is not read, no worker is started,
\* no record is verified, and the exit status is not 0.
C10_BadPolyFatalFirst ==
    flags.poly \notin Recognized =>
        /\ pc \in {"flags", "exited"}
        /\ parsed = NoRead
        /\ i = 0 /\ wg = 0
        /\ \A k \in Workers : workers[k].pc = "none"
        /\ bar = 0
        /\ Ended => status # 0

\* Either command has ended on an unrecognized polynomial name although a
\* manifest was named on the command line.
C10_Witness ==
    /\ Ended /\ flags.poly \notin Recognized /\ flags.nargs = 1 /\ status = 1

AllRecordsVerified ==
    /\ bar = Count
    /\ IdxOf(consumed) = 1..Count /\ Len(consumed) = Count

PipelineShutDown ==
    /\ checksums.closed /\ checksums.buf = <<>>
    /\ \A k \in Workers : workers[k].pc = IF k <= flags.j THEN "done" ELSE "none"
    /\ wg = 0 /\ closer = "done"
    /\ errs.closed /\ errs.buf = <<>>

\* C3: under fair scheduling every run ends; no state before the end is a
\* deadlock; and a run of W >= 1 workers over a manifest that loaded ends
\* with every record verified and received (whatever the outcomes), every
\* worker out of its loop, both channels closed and empty.
C3_Terminates ==
    /\ [](~Ended => ENABLED Next)
    /\ <>(Ended /\ ((Loaded /\ flags.j >= 1) =>
                        (AllRecordsVerified /\ PipelineShutDown)))

\* A run with more workers than records has ended, one record having failed.
C3_Witness ==
    /\ Ended /\ Loaded /\ Count >= 1 /\ flags.j > Count
    /\ \E k \in DOMAIN consumed : ~OutcomeOK(consumed[k])
    /\ PipelineShutDown

\* ---- the library

LibParsed == libpc # "read" /\ libFile.openErr = "nil"

KindsIn(S) == \A k \in DOMAIN libFile.samples : libFile.samples[k].kind \in S

\* The records the file format makes of the lines: one for each record
\* line, in file order, with the name and the value written on the line.
RECURSIVE ExpectedRecords(_)
ExpectedRecords(ls) ==
    IF ls = <<>> THEN <<>>
    ELSE IF Head(ls).kind \in {"record", "spaced"}
         THEN <<[Filename |-> Head(ls).name, CRC32 |-> Head(ls).crc]>>
              \o ExpectedRecords(Tail(ls))
    ELSE ExpectedRecords(Tail(ls))

NameAndSum(cs) ==
    [k \in DOMAIN cs |-> [Filename |-> cs[k].Filename, CRC32 |-> cs[k].CRC32]]

\* C5: SFV.Verify verifies the records in manifest order and stops at the
\* first that mismatches or errors; it returns (true, nil) exactly when there
\* is at least one record and all matched, (false, nil) on a mismatch,
\* (false, err) on an error, and (false, "no checksums found") on a manifest
\* of zero records, without verifying anything.
C5_SequentialVerify ==
    (libpc = "done" /\ libRead.err = "nil") =>
        LET cs    == libRead.sfv.Checksums
            calls == libVerify.calls
            good(k) == calls[k].ok /\ calls[k].err = "nil"
        IN  /\ Len(calls) <= Len(cs)
            /\ \A k \in DOMAIN calls :
                  /\ calls[k].idx = k
                  /\ k < Len(calls) => good(k)
                  /\ LET r == Verify(cs[k], libEnv.poly, bufSize, libEnv.files[k])
                     IN  calls[k].ok = r.ok /\ calls[k].err = r.err
            /\ (libVerify.ok /\ libVerify.err = "nil") <=>
                  (Len(cs) >= 1 /\ Len(calls) = Len(cs) /\ \A k \in DOMAIN calls : good(k))
            /\ (Len(cs) >= 1 /\ ~libVerify.ok) =>
                  /\ ~good(Len(calls))
                  /\ libVerify.err = calls[Len(calls)].err
            /\ Len(cs) = 0 =>
                  (~libVerify.ok /\ libVerify.err = "no checksums found" /\ calls = <<>>)

\* SFV.Verify has returned (false, nil) on a manifest of two records after
\* verifying only the first, which mismatched.
C5_Witness ==
    /\ libpc = "done" /\ libRead.err = "nil"
    /\ Len(libRead.sfv.Checksums) = 2
    /\ Len(libVerify.calls) = 1
    /\ ~libVerify.ok /\ libVerify.err = "nil"

\* C6: a manifest of record lines, blank lines and comment lines, read
\* without error, parses to one record per record line, in file order, each
\* with its line's name and hex value.
C6_WellFormedParse ==
    (LibParsed /\ libFile.reader.err = "nil" /\ KindsIn({"blank", "comment", "record"})) =>
        /\ libRead.err = "nil"
        /\ NameAndSum(libRead.sfv.Checksums) = ExpectedRecords(libFile.samples)

\* An indented comment followed by a record of eight hex digits, in both
\* cases, has been parsed to the one record.
C6_Witness ==
    /\ LibParsed
    /\ libFile.samples = <<LineIndentedComment, LineAMax>>
    /\ libFile.reader.err = "nil"
    /\ Len(libRead.sfv.Checksums) = 1
    /\ libRead.sfv.Checksums[1].CRC32 = <<65535, 65535>>

\* The error the first line that is no record, blank or comment fails with.
RECURSIVE FirstLineError(_)
FirstLineError(ls) ==
    IF ls = <<>> THEN "nil"
    ELSE CASE Head(ls).kind = "malformed" -> "could not parse checksum"
           [] Head(ls).kind = "nothex"    -> "strconv: invalid syntax"
           [] Head(ls).kind = "toowide"   -> "strconv: value out of range"
           [] OTHER -> FirstLineError(Tail(ls))

\* C7: a manifest with a line of fewer than two fields, or a checksum that
\* is not hex or wider than 32 bits, fails to parse with the error of the
\* first such line, and Read returns no SFV: no record, not even those of
\* the lines before.
C7_AllOrNothing ==
    (/\ LibParsed
     /\ KindsIn({"blank", "comment", "record", "malformed", "nothex", "toowide"})
     /\ FirstLineError(libFile.samples) # "nil") =>
        /\ libRead.err = FirstLineError(libFile.samples)
        /\ libRead.sfv = NoSFV

\* A good record followed by a line whose checksum is not hex has been read.
C7_Witness ==
    /\ LibParsed
    /\ libFile.samples = <<LineB, LineNotHex>>
    /\ libRead.err = "strconv: invalid syntax"
    /\ libRead.sfv = NoSFV

\* C8 (as claimed): a manifest whose record lines include one with spaces in
\* the file name parses, and the record carries the whole name and the value.
C8_SpacedNameAccepted ==
    (/\ LibParsed /\ libFile.reader.err = "nil"
     /\ KindsIn({"blank", "comment", "record", "spaced"})
     /\ ~KindsIn({"blank", "comment", "record"})) =>
        /\ libRead.err = "nil"
        /\ NameAndSum(libRead.sfv.Checksums) = ExpectedRecords(libFile.samples)

\* The names the help text of -poly offers, and the polynomial each stands
\* for: "crc32c (Castagnoli), ieee, or koopman".
HelpNames == {"crc32c", "ieee", "koopman"}

HelpPolynomial(name) ==
    CASE name = "crc32c"  -> Castagnoli
      [] name = "ieee"    -> IEEE
      [] name = "koopman" -> Koopman

\* C11 (as claimed): with a manifest argument and a polynomial name the help
\* text of -poly offers, the run does not end at the flags with the
\* configuration error, and once the flags are parsed the polynomial in use
\* is the one the name stands for.
C11_HelpNamesAccepted ==
    (flags.nargs = 1 /\ flags.j # 0 /\ flags.poly \in HelpNames /\ pc # "flags") =>
        /\ ~(Ended /\ parsed = NoRead)
        /\ polynomial = HelpPolynomial(flags.poly)

\* Every worker the spawn loop started has left its loop and called wg.Done().
WorkersTerminated ==
    \A k \in Workers :
        /\ workers[k].pc \in {"none", "done"}
        /\ k <= flags.j => workers[k].pc = "done"

\* C12: errs is closed only when every started worker has terminated and the
\* WaitGroup counter is zero; the step that closes it is the closing
\* goroutine's, which is then done and never closes again, so the channel is
\* closed at most once; and no run that loaded its manifest ends in a panic,
\* so no worker ever sends on the closed channel.
C12_CloseAfterWorkers ==
    /\ [](errs.closed => (closer = "done" /\ wg = 0 /\ WorkersTerminated))
    /\ [](Loaded => status # 2)
    /\ [][(errs'.closed # errs.closed) =>
             (~errs.closed /\ closer = "wait" /\ closer' = "done")]_vars
    /\ [][closer = "done" => closer' = "done"]_vars

\* errs has been closed after two workers finished, while main still has
\* outcomes to take from it.
C12_Witness ==
    /\ Loaded /\ flags.j = 2 /\ Count = 2
    /\ errs.closed /\ Len(errs.buf) = 2 /\ pc = "drain"
    /\ WorkersTerminated

\* C13: in a run that loaded a manifest of N records, neither channel ever
\* holds more than N values; main's send of the next record can always be
\* taken, whatever the workers have done so far; and a worker's send of its
\* outcome can always be taken, whether or not main has begun to receive.
C13_QueuesNeverBlock ==
    Loaded =>
        /\ Len(checksums.buf) <= Count
        /\ Len(errs.buf) <= Count
        /\ (pc = "enqueue" /\ n < Count) => ENABLED Enqueue
        /\ \A k \in Workers :
              (workers[k].pc = "send" /\ status = Running) =>
                  (~errs.closed /\ ENABLED Send(k))

\* Both outcomes of a two-record manifest sit in errs while main is still
\* at its enqueue loop and has received nothing.
C13_Witness ==
    /\ Loaded /\ Count = 2 /\ pc = "enqueue"
    /\ Len(errs.buf) = 2 /\ consumed = <<>>

\* The workers that hold an outcome they have not sent yet, and the records
\* those outcomes are for.
Holders == {k \in Workers : workers[k].pc = "send"}

HeldIdx == {workers[k].item.idx : k \in Holders}

\* C14: the records main has enqueued so far are each in exactly one place:
\* waiting in checksums, or verified with the outcome held by one worker, in
\* errs, or received by main; no record is in two places or twice in one, the
\* number of Verify calls made is the number of records verified, and when a
\* run of W >= 1 workers has ended every record of the manifest was verified.
C14_VerifiedOnce ==
    Loaded =>
        LET queued == IdxOf(checksums.buf)
            sent   == IdxOf(errs.buf) \cup IdxOf(consumed)
        IN  /\ \A a, b \in Holders :
                  workers[a].item.idx = workers[b].item.idx => a = b
            /\ Distinct(checksums.buf)
            /\ Distinct(errs.buf \o consumed)
            /\ HeldIdx \cap sent = {}
            /\ queued \cap (HeldIdx \cup sent) = {}
            /\ queued \cup HeldIdx \cup sent = 1..n
            /\ bar = Cardinality(Holders) + Len(errs.buf) + Len(consumed)
            /\ (Ended /\ flags.j >= 1) =>
                  (IdxOf(consumed) = 1..Count /\ bar = Count)

\* Two workers hold the outcomes of the two records of a manifest, one each.
C14_Witness ==
    /\ Loaded /\ Count = 2 /\ Holders = {1, 2}
    /\ workers[1].item.idx # workers[2].item.idx

\* Main has received the outcome of a later record before that of an
\* earlier one.
Inverted(q) == \E a, b \in DOMAIN q : a < b /\ q[a].idx > q[b].idx

\* C15: main receives outcomes out of manifest order only in runs of at
\* least two workers over at least two records; that such a run does so is
\* the state C15_Witness describes.
C15_OrderNotManifestOrder ==
    Inverted(consumed) => (flags.j >= 2 /\ Count >= 2)

\* With two workers, main has received the outcome of the second record
\* while a worker still holds the outcome of the first.
C15_Witness ==
    /\ Loaded /\ flags.j = 2 /\ Count = 2 /\ pc = "drain"
    /\ Len(consumed) = 1 /\ consumed[1].idx = 2
    /\ 1 \in HeldIdx

\* The class of an outcome of Verify.
Class(out) ==
    IF out.err # "nil" THEN "error"
    ELSE IF out.ok THEN "match" ELSE "mismatch"

\* C16: the progress bar's count is at every moment the number of outcomes
\* the workers have produced so far, of whatever class (held by a worker,
\* buffered in errs or received by main); it never exceeds N, and it is N
\* when a run of W >= 1 workers has ended.
C16_ProgressCount ==
    Loaded =>
        /\ bar = Cardinality(Holders) + Len(errs.buf) + Len(consumed)
        /\ bar <= Count
        /\ (Ended /\ flags.j >= 1) => bar = Count

\* A run over two records has ended with the bar at 2, one outcome a
\* mismatch and the other an error.
C16_Witness ==
    /\ Ended /\ Loaded /\ Count = 2 /\ bar = 2 /\ Len(consumed) = 2
    /\ {Class(consumed[k].out) : k \in 1..2} = {"mismatch", "error"}

NotMatch(m) == Class(m.out) # "match"

\* What main prints for a value it received, by the class of the outcome:
\* nothing for a match; for a mismatch the corruption message with the
\* record's file name, its expected checksum and the computed one; for an
\* error the error's own text.
ReportedAs(m) ==
    LET c == parsed.sfv.Checksums[m.idx] IN
    CASE Class(m.out) = "match"    -> m.kind = "nil"
      [] Class(m.out) = "mismatch" ->
            /\ m.kind = "corruption"
            /\ m.filename = c.Filename
            /\ m.expected = c.CRC32
            /\ m.computed = m.out.result
      [] Class(m.out) = "error"    ->
            /\ m.kind = "io"
            /\ m.text = m.out.err

\* C17: every value main has received is reported by the class of its
\* outcome; the lines printed so far are those of the mismatches and errors
\* received, one each and in the order received, and none for a match; and
\* when a run of W >= 1 workers has ended the number of lines printed is the
\* number of records that mismatched or errored.
C17_ReportByClass ==
    Loaded =>
        /\ \A k \in DOMAIN consumed : ReportedAs(consumed[k])
        /\ stdout = SelectSeq(consumed, NotMatch)
        /\ (Ended /\ flags.j >= 1) =>
              /\ IdxOf(consumed) = 1..Count
              /\ Len(stdout) =
                    Cardinality({k \in DOMAIN consumed : NotMatch(consumed[k])})

\* A run over two records has ended having printed one line, a corruption
\* message; the other record matched.
C17_Witness ==
    /\ Ended /\ Loaded /\ Count = 2 /\ Len(consumed) = 2
    /\ Len(stdout) = 1 /\ stdout[1].kind = "corruption"
    /\ \E k \in 1..2 : Class(consumed[k].out) = "match"

\* A file that opens and reads to its end without error.
Readable(file) == file.openErr = "nil" /\ file.readErr = "nil"

\* What Verify is to return for a readable file and an expected checksum:
\* no error, the digest of all the file's bytes in order, and whether that
\* digest equals the expected one.
WholeFileOutcome(out, expected) ==
    /\ out.err = "nil"
    /\ out.result = crc32Write(polynomial, Zero32, out.file.data)
    /\ out.ok = (out.result = expected)

\* C18 (as claimed): whatever buffer size the command line has set with
\* SetBufSize(mem * 1024 / parallelism), every outcome for a readable file
\* carries the CRC32 of the whole file and matched = (computed = expected).
C18_WholeFileDigest ==
    /\ \A k \in Holders :
          Readable(workers[k].out.file) =>
              WholeFileOutcome(workers[k].out, workers[k].item.c.CRC32)
    /\ \A q \in {errs.buf, consumed} : \A k \in DOMAIN q :
          Readable(q[k].out.file) =>
              WholeFileOutcome(q[k].out, parsed.sfv.Checksums[q[k].idx].CRC32)

\* path.IsAbs
IsAbs(p) == p # <<>> /\ p[1] = "/"

\* The directory of the manifest at SfvPath, written by hand.
ManifestDir == <<"d">>

\* C19 (as claimed): every record of a manifest that parsed has as its path
\* the file name itself when the file name is absolute, and the manifest's
\* directory joined with the file name otherwise.
C19_PathResolution ==
    (LibParsed /\ libRead.err = "nil") =>
        \A k \in DOMAIN libRead.sfv.Checksums :
            LET c == libRead.sfv.Checksums[k] IN
            c.Path = IF IsAbs(c.Filename) THEN c.Filename
                     ELSE ManifestDir \o <<"/">> \o c.Filename

\* C20 (as claimed): whatever integer -j gives, a run over a manifest of at
\* least one record ends with status 0 only if main received an outcome for
\* every record and every outcome is a match without error.
C20_NoFalseSuccess ==
    (Ended /\ Loaded /\ Count >= 1 /\ status = 0) =>
        /\ IdxOf(consumed) = 1..Count
        /\ \A k \in DOMAIN consumed : OutcomeOK(consumed[k])

====
